---- MODULE Spec2Model ----
(***************************************************************************)
(* geode: dynamic-dispatch cursors (Iter, IterMut) over a cons list, and    *)
(* the short-circuiting StaticIter operations.                             *)
(*                                                                         *)
(* A sequence of n cells is laid out as nested List { head, rest } values  *)
(* closed by End.  A reference to the cell at position p (0 <= p <= n)     *)
(* denotes the suffix holding items p+1 .. n; position n is End.           *)
(***************************************************************************)
EXTENDS Integers, Sequences, FiniteSets, TLC

\* ---------------------------------------------------------------- bounds
MaxLen == 3
MaxCursors == 2
MaxExtra == 2
MaxUnwinds == 1
MaxWrites == 1
MaxVal == 3
MaxRounds == 1

VARIABLES n, items, cur, refs, unwinds, writes, st

vars == <<n, items, cur, refs, unwinds, writes, st>>

Ids == 1..MaxCursors

\* ------------------------------------------------------- Option<&T> values
None == [tag |-> "None", idx |-> 0]
Some(i) == [tag |-> "Some", idx |-> i]

\* ------------------------------------------- the traversal capabilities
\* Iteratee::head_rest on the cell at position p: End reports no item and
\* itself as remainder, a List cell its head and a reference to its rest.
head_rest(p) ==
    IF p >= n THEN [head |-> None, rest |-> p]
    ELSE [head |-> Some(p + 1), rest |-> p + 1]

\* IterateeMut::head_rest_mut: same positions, exclusive references.
head_rest_mut(p) ==
    IF p >= n THEN [head |-> None, rest |-> p]
    ELSE [head |-> Some(p + 1), rest |-> p + 1]

\* IterateeMut::as_iteratee: the same cell, borrowed shared.
as_iteratee(p) == p

\* Iteratee::size_hint of the cell at position p: the exact remaining count.
Iteratee_size_hint(p) == [lo |-> n - p, hi |-> Some(n - p)]

\* Memory backing an item, and memory backing the cell at position p
\* (its head and, nested in it, its whole rest), as sets of item slots.
ItemRegion(i) == {i}
CellRegion(p) == (p + 1)..n

\* ------------------------------------------------------------ the cursors
\* The `iteratee` field of a cursor is a storage slot holding one reference.
Slot(p) == [init |-> TRUE, pos |-> p]
Vacant == [init |-> FALSE, pos |-> 0]

\* Iter::new
Iter_new(iteratee) == [kind |-> "Iter", iteratee |-> Slot(iteratee)]

\* IterMut::new
IterMut_new(iteratee) == [kind |-> "IterMut", iteratee |-> Slot(iteratee)]

\* A fork that moves the stored reference out and leaves `self` without one.
IterMut_fork_taking(self) ==
    [self |-> Vacant, out |-> IterMut_new(self.iteratee.pos)]

\* IterMut::fork(&mut self): a reborrow of the stored reference, which stays
\* in `self`.
IterMut_fork(self) ==
    [self |-> self.iteratee, out |-> IterMut_new(self.iteratee.pos)]

\* fork_shared that advances `self` past the item the shared cursor starts at.
IterMut_fork_shared_advancing(self) ==
    [self |-> Slot(head_rest_mut(self.iteratee.pos).rest),
     out |-> Iter_new(as_iteratee(self.iteratee.pos))]

\* fork_shared that hands out the remainder of the current cell.
IterMut_fork_shared_of_rest(self) ==
    [self |-> self.iteratee,
     out |-> Iter_new(as_iteratee(head_rest_mut(self.iteratee.pos).rest))]

\* IterMut::fork_shared(&self)
IterMut_fork_shared(self) ==
    [self |-> self.iteratee, out |-> Iter_new(as_iteratee(self.iteratee.pos))]

\* From<IterMut> for Iter
Iter_from(iter_mut) == Iter_new(as_iteratee(iter_mut.iteratee.pos))

\* A clone that restarts at the head of the sequence.
Iter_clone_restart(self) == [kind |-> "Iter", iteratee |-> Slot(0)]

\* #[derive(Clone)] on Iter: a field-wise copy.
Iter_clone(self) == [kind |-> "Iter", iteratee |-> self.iteratee]

\* Iter::next that forgets `self.iteratee = rest`.
Iter_next_no_advance(self) ==
    [iteratee |-> self.iteratee, out |-> head_rest(self.iteratee.pos).head]

\* Iter::next that yields the head of the remainder instead of its own.
Iter_next_head_of_rest(self) ==
    LET hr == head_rest(self.iteratee.pos)
    IN  [iteratee |-> Slot(hr.rest), out |-> head_rest(hr.rest).head]

\* Iter::next: returns the cursor state after the call and the yielded value.
Iter_next(self) ==
    LET hr == head_rest(self.iteratee.pos)
    IN  [iteratee |-> Slot(hr.rest), out |-> hr.head]

\* A read that moves the reference out and leaves the slot empty.
ptr_take(slot) == [value |-> slot, left |-> Vacant]

\* `iteratee.read()` in IterMut::next: a bitwise copy out of the slot, which
\* leaves the slot's contents in place.
ptr_read(slot) == [value |-> slot, left |-> slot]

\* The positions a read of a slot can produce: the stored one, or anything
\* at all when the slot holds no initialized reference.
ReadTargets(slot) == IF slot.init THEN {slot.pos} ELSE 0..n

\* IterMut::next that writes the reference it read back instead of `rest`.
IterMut_next_write_self(self, p) ==
    [iteratee |-> Slot(p), out |-> head_rest_mut(p).head]

\* IterMut::next when head_rest_mut returns: the remainder is written back.
IterMut_next(self, p) ==
    LET hr == head_rest_mut(p)
    IN  [iteratee |-> Slot(hr.rest), out |-> hr.head]

\* IterMut::next when head_rest_mut unwinds: the write is never reached.
IterMut_next_unwind(self) == [iteratee |-> ptr_read(self.iteratee).left]

\* Iterator::size_hint as the cursors provide it: neither impl block defines
\* it, so both use the trait's provided method.
Iter_size_hint(self) == [lo |-> 0, hi |-> None]
IterMut_size_hint(self) == [lo |-> 0, hi |-> None]

\* --------------------------------------------------------------- lifetimes
\* Every cursor and every yielded `&'a mut T` carries the lifetime 'a of the
\* reference it was made from: `lt` names the lender (0 for the sequence
\* itself, otherwise the cursor that was reborrowed) and `lk` how the lender
\* was borrowed.

\* A fork that copies the stored reference with its full lifetime 'a and so
\* does not borrow `self`.
fork_lifetime_copied(id, self) == [lt |-> self.lt, lk |-> self.lk]

\* fn fork(&mut self) -> IterMut<'_, T, I>: the fork borrows `self` exclusively.
fork_lifetime(id, self) == [lt |-> id, lk |-> "mut"]

\* fn fork_shared(&self) -> Iter<'_, T, I>: the result borrows `self` shared.
fork_shared_lifetime(id, self) == [lt |-> id, lk |-> "shared"]

\* fn from(iter_mut: IterMut<'a, T, I>) -> Iter<'a, T, I>: 'a is kept.
from_lifetime(iter_mut) == [lt |-> iter_mut.lt, lk |-> iter_mut.lk]

\* type Item = &'a mut T: a yielded item lives as long as 'a, not as `self`.
item_lifetime(self) == [lt |-> self.lt, lk |-> self.lk]

NoCursor ==
    [kind |-> "none", iteratee |-> Vacant, lt |-> 0, lk |-> "shared",
     via |-> "none", src |-> 0, srcPos |-> 0, start |-> 0, log |-> <<>>]

Live(c) == cur[c].kind \in {"Iter", "IterMut"}

\* Something still holds a borrow of lender e / an exclusive borrow of e.
Borrowed(e) ==
    \/ \E c \in Ids : Live(c) /\ cur[c].lt = e
    \/ \E r \in refs : r.lt = e
BorrowedMut(e) ==
    \/ \E c \in Ids : Live(c) /\ cur[c].lt = e /\ cur[c].lk = "mut"
    \/ \E r \in refs : r.lt = e /\ r.lk = "mut"

\* `&mut e` / `&e` can be taken.
UsableMut(e) == ~Borrowed(e)
UsableShared(e) == ~BorrowedMut(e)

HasFree == \E c \in Ids : cur[c].kind = "none"
Fresh == CHOOSE c \in Ids : cur[c].kind = "none" /\ \A d \in 1..(c - 1) : cur[d].kind # "none"

\* c's lifetime is nested in a borrow of e.
RECURSIVE Desc(_, _)
Desc(l, e) == l # 0 /\ (cur[l].lt = e \/ Desc(cur[l].lt, e))

Made(base, life, via, src) ==
    [kind |-> base.kind, iteratee |-> base.iteratee, lt |-> life.lt, lk |-> life.lk,
     via |-> via, src |-> src, srcPos |-> IF src = 0 THEN 0 ELSE cur[src].iteratee.pos,
     start |-> base.iteratee.pos, log |-> <<>>]

CallsLeft(c) == Len(cur[c].log) < (n - cur[c].start) + MaxExtra

\* The StaticIter operations are not running.
Idle == [pc |-> "idle"]

\* ------------------------------------------------------------------ actions
Init ==
    /\ n \in 0..MaxLen
    /\ items = [i \in 1..n |-> i]
    /\ cur = [c \in Ids |-> NoCursor]
    /\ refs = {}
    /\ unwinds = 0
    /\ writes = 0
    /\ st = Idle

\* Iter::new(&list)
NewIter ==
    /\ HasFree /\ UsableShared(0)
    /\ cur' = [cur EXCEPT ![Fresh] = Made(Iter_new(0), [lt |-> 0, lk |-> "shared"], "new", 0)]
    /\ UNCHANGED <<n, items, refs, unwinds, writes, st>>

\* IterMut::new(&mut list)
NewIterMut ==
    /\ HasFree /\ UsableMut(0)
    /\ cur' = [cur EXCEPT ![Fresh] = Made(IterMut_new(0), [lt |-> 0, lk |-> "mut"], "new", 0)]
    /\ UNCHANGED <<n, items, refs, unwinds, writes, st>>

\* <Iter as Iterator>::next
IterNext(c) ==
    /\ cur[c].kind = "Iter" /\ UsableMut(c) /\ CallsLeft(c)
    /\ LET r == Iter_next(cur[c])
       IN  cur' = [cur EXCEPT ![c].iteratee = r.iteratee, ![c].log = Append(@, r.out)]
    /\ UNCHANGED <<n, items, refs, unwinds, writes, st>>

\* <IterMut as Iterator>::next, head_rest_mut returning
IterMutNext(c) ==
    /\ cur[c].kind = "IterMut" /\ UsableMut(c) /\ CallsLeft(c)
    /\ \E p \in ReadTargets(ptr_read(cur[c].iteratee).value) :
         LET r == IterMut_next(cur[c], p)
             life == item_lifetime(cur[c])
         IN  /\ cur' = [cur EXCEPT ![c].iteratee = r.iteratee, ![c].log = Append(@, r.out)]
             /\ refs' = IF r.out.tag = "Some"
                        THEN refs \cup {[idx |-> r.out.idx, owner |-> c,
                                         seq |-> Len(cur[c].log) + 1,
                                         lt |-> life.lt, lk |-> life.lk]}
                        ELSE refs
    /\ UNCHANGED <<n, items, unwinds, writes, st>>

\* <IterMut as Iterator>::next, head_rest_mut unwinding
IterMutNextUnwind(c) ==
    /\ cur[c].kind = "IterMut" /\ UsableMut(c) /\ unwinds < MaxUnwinds
    /\ cur' = [cur EXCEPT ![c].iteratee = IterMut_next_unwind(cur[c]).iteratee]
    /\ unwinds' = unwinds + 1
    /\ UNCHANGED <<n, items, refs, writes, st>>

\* IterMut::fork
Fork(c) ==
    /\ cur[c].kind = "IterMut" /\ UsableMut(c) /\ HasFree
    /\ LET r == IterMut_fork(cur[c])
       IN  cur' = [cur EXCEPT ![Fresh] = Made(r.out, fork_lifetime(c, cur[c]), "fork", c),
                              ![c].iteratee = r.self]
    /\ UNCHANGED <<n, items, refs, unwinds, writes, st>>

\* IterMut::fork_shared
ForkShared(c) ==
    /\ cur[c].kind = "IterMut" /\ UsableShared(c) /\ HasFree
    /\ LET r == IterMut_fork_shared(cur[c])
       IN  cur' = [cur EXCEPT ![Fresh] = Made(r.out, fork_shared_lifetime(c, cur[c]),
                                              "fork_shared", c),
                              ![c].iteratee = r.self]
    /\ UNCHANGED <<n, items, refs, unwinds, writes, st>>

\* Iter::from(iter_mut): the exclusive cursor is consumed and the shared
\* cursor takes its place.
Into(c) ==
    /\ cur[c].kind = "IterMut" /\ UsableMut(c)
    /\ cur' = [cur EXCEPT ![c] = Made(Iter_from(cur[c]), from_lifetime(cur[c]), "from", c)]
    /\ UNCHANGED <<n, items, refs, unwinds, writes, st>>

\* Iter::clone
Clone(c) ==
    /\ cur[c].kind = "Iter" /\ HasFree
    /\ cur' = [cur EXCEPT ![Fresh] = Made(Iter_clone(cur[c]), item_lifetime(cur[c]), "clone", c)]
    /\ UNCHANGED <<n, items, refs, unwinds, writes, st>>

\* A write through a yielded `&mut T`.
Write(r) ==
    /\ r \in refs /\ writes < MaxWrites
    /\ items' = [items EXCEPT ![r.idx] = @ + 1]
    /\ writes' = writes + 1
    /\ UNCHANGED <<n, cur, refs, unwinds, st>>

\* The borrow of lender e ends: every cursor and item reference whose
\* lifetime is bounded by it goes out of scope.
EndBorrow(e) ==
    /\ Borrowed(e)
    /\ cur' = [c \in Ids |-> IF Live(c) /\ Desc(c, e) THEN NoCursor ELSE cur[c]]
    /\ refs' = {r \in refs : ~(r.lt = e \/ Desc(r.lt, e))}
    /\ UNCHANGED <<n, items, unwinds, writes, st>>

Next ==
    \/ NewIter
    \/ NewIterMut
    \/ \E c \in Ids : IterNext(c)
    \/ \E c \in Ids : IterMutNext(c)
    \/ \E c \in Ids : IterMutNextUnwind(c)
    \/ \E c \in Ids : Fork(c)
    \/ \E c \in Ids : ForkShared(c)
    \/ \E c \in Ids : Into(c)
    \/ \E c \in Ids : Clone(c)
    \/ \E r \in refs : Write(r)
    \/ \E e \in 0..MaxCursors : EndBorrow(e)

Spec == Init /\ [][Next]_vars

\* ------------------------------------------------------------- StaticIter
\* A list value is the sequence of its items, head first; End is <<>>.
Ok == [tag |-> "Ok", val |-> "unit"]
Err(e) == [tag |-> "Err", val |-> e]
Unwound == [tag |-> "Unwind", val |-> "unit"]

Vals == 1..MaxVal
Errs == {"e1", "e2"}

\* ------------------------------------------------------------------- Cons
End == <<>>

\* <End as Cons>::cons: List { head, rest: self }
End_cons(self, head) == <<head>> \o self

\* <End as Cons>::r_cons: List { head: tail, rest: self }
End_r_cons(self, tail) == <<tail>> \o self

\* <List as Cons>::cons: List { head, rest: self }
List_cons(self, head) == <<head>> \o self

\* r_cons that puts `tail` right behind the head instead of recursing.
List_r_cons_behind_head(self, tail) == <<Head(self), tail>> \o Tail(self)

\* <List as Cons>::r_cons: List { head: self.head, rest: R::r_cons(self.rest, tail) }
RECURSIVE List_r_cons(_, _)
List_r_cons(self, tail) ==
    <<Head(self)>> \o (IF Tail(self) = <<>> THEN End_r_cons(Tail(self), tail)
                       ELSE List_r_cons(Tail(self), tail))

\* Cons::cons / Cons::r_cons on whichever of End and List `self` is.
cons(self, head) == IF self = <<>> THEN End_cons(self, head) ELSE List_cons(self, head)
r_cons(self, tail) == IF self = <<>> THEN End_r_cons(self, tail) ELSE List_r_cons(self, tail)

\* ---------------------------------------------------------------- visitors
\* The caller's visitor: it records each item it is handed and signals the
\* failure `err` on its failAt-th call (never when failAt is 0).
Visitor(failAt, err) == [kind |-> "visit", failAt |-> failAt, err |-> err, seen |-> <<>>]

visit(v, item) ==
    LET seen == Append(v.seen, item)
    IN  [v |-> [v EXCEPT !.seen = seen],
         result |-> IF Len(seen) = v.failAt THEN Err(v.err) ELSE Ok]

\* The caller's accumulating function, by name: "sum" adds the item,
\* "digits" appends it as a decimal digit (so the order of the items shows).
Folds == {"sum", "digits"}
F(f, acc, x) == IF f = "sum" THEN acc + x ELSE 10 * acc + x

OkVal(a) == [tag |-> "Ok", val |-> a]

\* The caller's on_fold of try_fold*: F, except that its failAt-th call
\* returns Err(err), or unwinds when err is "unwind".
on_fold(v, acc, item) ==
    IF Len(v.seen) + 1 = v.failAt
    THEN IF v.err = "unwind" THEN Unwound ELSE Err(v.err)
    ELSE OkVal(F(v.f, acc, item))

\* The accumulator slot `aggregate` behind the raw pointer `aggregate_`:
\* `full` tells whether it currently owns a value.
Full(a) == [full |-> TRUE, val |-> a]
Moved(slot) == [full |-> FALSE, val |-> slot.val]

\* The closure try_fold* hands to try_for_each*:
\*   |item| Ok(aggregate_.write(on_fold(aggregate_.read(), item)?))
\* Its state is the slot, on_fold, the items it was handed and the moves out
\* of ("take") and into ("put") the slot so far.
FoldClosure(initial, f, failAt, err) ==
    [kind |-> "fold", f |-> f, failAt |-> failAt, err |-> err, seen |-> <<>>,
     slot |-> Full(initial), events |-> <<>>]

\* A closure that calls on_fold but writes the value it read back.
fold_closure_write_old(v, item) ==
    LET r == on_fold(v, v.slot.val, item)
        seen == Append(v.seen, item)
    IN  IF r.tag = "Ok"
        THEN [v |-> [v EXCEPT !.seen = seen, !.slot = Full(v.slot.val),
                              !.events = @ \o <<"take", "put">>],
              result |-> Ok]
        ELSE [v |-> [v EXCEPT !.seen = seen, !.slot = Moved(@),
                              !.events = Append(@, "take")],
              result |-> r]

fold_closure(v, item) ==
    LET r == on_fold(v, v.slot.val, item)
        seen == Append(v.seen, item)
    IN  IF r.tag = "Ok"
        THEN [v |-> [v EXCEPT !.seen = seen, !.slot = Full(r.val),
                              !.events = @ \o <<"take", "put">>],
              result |-> Ok]
        ELSE [v |-> [v EXCEPT !.seen = seen, !.slot = Moved(@),
                              !.events = Append(@, "take")],
              result |-> r]

\* The on_each argument of try_for_each*, whichever closure it is.
on_each(v, item) == IF v.kind = "fold" THEN fold_closure(v, item) ELSE visit(v, item)

\* The same handed `&mut item`: the caller's function also increments the item.
on_each_mut(v, item) ==
    LET r == on_each(v, item)
    IN  [v |-> r.v, result |-> r.result, item |-> item + 1]

\* impl StaticIter for End that is still a stub.
End_try_for_each_todo(v) == [v |-> v, result |-> Unwound]
End_try_for_each_ref_todo(v) == [v |-> v, result |-> Unwound]
End_try_for_each_mut_todo(v) == [v |-> v, result |-> Unwound]

\* impl StaticIter for End: the visitor is dropped unused.
End_try_for_each(v) == [v |-> v, result |-> Ok]
End_try_for_each_ref(v) == [v |-> v, result |-> Ok]
End_try_for_each_mut(v) == [v |-> v, result |-> Ok]

\* StaticIter for a List cell: the head is visited, then the rest, stopping
\* at the first failure (or unwinding out of the visitor).
RECURSIVE List_try_for_each(_, _)
List_try_for_each(self, v) ==
    IF self = <<>> THEN End_try_for_each(v)
    ELSE LET r == on_each(v, Head(self))
         IN  IF r.result.tag # "Ok" THEN r ELSE List_try_for_each(Tail(self), r.v)

RECURSIVE List_try_for_each_ref(_, _)
List_try_for_each_ref(self, v) ==
    IF self = <<>> THEN End_try_for_each_ref(v)
    ELSE LET r == on_each(v, Head(self))
         IN  IF r.result.tag # "Ok" THEN r ELSE List_try_for_each_ref(Tail(self), r.v)

\* The exclusive variant also returns the list as the visitor left it.
RECURSIVE List_try_for_each_mut(_, _)
List_try_for_each_mut(self, v) ==
    IF self = <<>>
    THEN LET e == End_try_for_each_mut(v)
         IN  [v |-> e.v, result |-> e.result, self |-> self]
    ELSE LET r == on_each_mut(v, Head(self))
         IN  IF r.result.tag # "Ok"
             THEN [v |-> r.v, result |-> r.result, self |-> <<r.item>> \o Tail(self)]
             ELSE LET t == List_try_for_each_mut(Tail(self), r.v)
                  IN  [v |-> t.v, result |-> t.result, self |-> <<r.item>> \o t.self]

\* ------------------------------------------------- provided StaticIter methods
\* A plain return of `a` from a method that returns no Result.
Ret(a) == [tag |-> "Ret", val |-> a]

\* Result<_, Infallible>::unwrap
unwrap(r) == IF r.tag = "Ok" THEN Ret(r.val) ELSE Unwound

\* The caller's infallible on_each / on_fold wrapped in Ok::<_, Infallible>:
\* a visitor or accumulating function that never fails.
Never == 0
Infallible == "Infallible"

\* StaticIter::for_each
for_each(self, v) ==
    LET r == List_try_for_each(self, v)
    IN  [v |-> r.v, result |-> unwrap(r.result)]

\* StaticIter::for_each_ref
for_each_ref(self, v) ==
    LET r == List_try_for_each_ref(self, v)
    IN  [v |-> r.v, result |-> unwrap(r.result)]

\* for_each_mut that traverses by try_for_each_ref: the visitor's writes do
\* not reach the list.
for_each_mut_shared(self, v) ==
    LET r == List_try_for_each_ref(self, v)
    IN  [v |-> r.v, result |-> unwrap(r.result), self |-> self]

\* StaticIter::for_each_mut
for_each_mut(self, v) ==
    LET r == List_try_for_each_mut(self, v)
    IN  [v |-> r.v, result |-> unwrap(r.result), self |-> r.self]

\* The end of try_fold* with `aggregate` an ordinary local: leaving by `?`
\* or by unwinding drops it.
leave_dropping(r) ==
    IF r.result.tag = "Ok"
    THEN [v |-> [r.v EXCEPT !.slot = Moved(@), !.events = Append(@, "return")],
          result |-> OkVal(r.v.slot.val)]
    ELSE [v |-> [r.v EXCEPT !.events = Append(@, "drop")], result |-> r.result]

\* The end of try_fold*, `aggregate` being a ManuallyDrop: `?` (and an
\* unwind) leaves without touching it, otherwise into_inner moves it out.
leave(r) ==
    IF r.result.tag = "Ok"
    THEN [v |-> [r.v EXCEPT !.slot = Moved(@), !.events = Append(@, "return")],
          result |-> OkVal(r.v.slot.val)]
    ELSE [v |-> r.v, result |-> r.result]

\* StaticIter::try_fold
try_fold(self, initial, f, failAt, err) ==
    leave(List_try_for_each(self, FoldClosure(initial, f, failAt, err)))

\* StaticIter::try_fold_ref
try_fold_ref(self, initial, f, failAt, err) ==
    leave(List_try_for_each_ref(self, FoldClosure(initial, f, failAt, err)))

\* StaticIter::try_fold_mut
try_fold_mut(self, initial, f, failAt, err) ==
    LET r == List_try_for_each_mut(self, FoldClosure(initial, f, failAt, err))
        l == leave(r)
    IN  [v |-> l.v, result |-> l.result, self |-> r.self]

\* StaticIter::fold
fold(self, initial, f) ==
    LET r == try_fold(self, initial, f, Never, Infallible)
    IN  [v |-> r.v, result |-> unwrap(r.result)]

\* StaticIter::fold_ref
fold_ref(self, initial, f) ==
    LET r == try_fold_ref(self, initial, f, Never, Infallible)
    IN  [v |-> r.v, result |-> unwrap(r.result)]

\* StaticIter::fold_mut
fold_mut(self, initial, f) ==
    LET r == try_fold_mut(self, initial, f, Never, Infallible)
    IN  [v |-> r.v, result |-> unwrap(r.result), self |-> r.self]

\* ------------------------------------------------------ the static program
\* The program owns one list, built from End by cons and r_cons, and makes
\* one StaticIter call on it or advances a fresh cursor over it.  While the
\* list is being built, `ref` is the sequence of the items added so far, kept
\* by prepending on cons and appending on r_cons, and `last` the operation
\* that added the latest one; `prev` is the list as it was before the last
\* exclusive traversal, `round` the number of those.
Ready(s) == s.pc = "ready"

Building(list, ref, last) ==
    [pc |-> "ready", list |-> list, ref |-> ref, last |-> last,
     round |-> 0, prev |-> <<>>]

\* The arguments of a call.
Args(failAt, err, z, f) == [failAt |-> failAt, err |-> err, z |-> z, f |-> f]
VisitArgs(failAt, err) == Args(failAt, err, 0, "none")

\* `after` is the list the caller is left with: nothing when it was passed
\* by value.
Finished(op, a, r, after) ==
    [pc |-> "done", op |-> op, list |-> st.list,
     round |-> st.round, prev |-> st.prev,
     failAt |-> a.failAt, err |-> a.err, z |-> a.z, f |-> a.f,
     seen |-> r.v.seen, result |-> r.result, after |-> after,
     events |-> IF r.v.kind = "fold" THEN r.v.events ELSE <<>>,
     full |-> IF r.v.kind = "fold" THEN r.v.slot.full ELSE FALSE]

\* The first next() of a cursor made over the list.
Advanced(op, r) ==
    [pc |-> "done", op |-> op, list |-> st.list,
     round |-> st.round, prev |-> st.prev, out |-> r.out, pos |-> r.iteratee.pos]

InitStatic ==
    /\ n = 0 /\ items = <<>> /\ cur = [c \in Ids |-> NoCursor]
    /\ refs = {} /\ unwinds = 0 /\ writes = 0
    /\ st = Building(End, End, "none")

Untouched == UNCHANGED <<n, items, cur, refs, unwinds, writes>>
Holds(list) ==
    /\ n' = Len(list) /\ items' = list
    /\ UNCHANGED <<cur, refs, unwinds, writes>>

\* list.cons(x)
Cons(x) ==
    /\ Ready(st) /\ st.round = 0 /\ Len(st.list) < MaxLen
    /\ st' = Building(cons(st.list, x), <<x>> \o st.ref, "cons")
    /\ Holds(st'.list)

\* list.r_cons(x)
RCons(x) ==
    /\ Ready(st) /\ st.round = 0 /\ Len(st.list) < MaxLen
    /\ st' = Building(r_cons(st.list, x), Append(st.ref, x), "r_cons")
    /\ Holds(st'.list)

\* list.try_for_each(visitor)
TryForEach(failAt, err) ==
    /\ Ready(st)
    /\ st' = Finished("try_for_each", VisitArgs(failAt, err),
                      List_try_for_each(st.list, Visitor(failAt, err)), End)
    /\ Untouched

\* list.try_for_each_ref(visitor)
TryForEachRef(failAt, err) ==
    /\ Ready(st)
    /\ st' = Finished("try_for_each_ref", VisitArgs(failAt, err),
                      List_try_for_each_ref(st.list, Visitor(failAt, err)), st.list)
    /\ Untouched

\* list.try_for_each_mut(visitor)
TryForEachMut(failAt, err) ==
    /\ Ready(st)
    /\ LET r == List_try_for_each_mut(st.list, Visitor(failAt, err))
       IN  /\ st' = Finished("try_for_each_mut", VisitArgs(failAt, err), r, r.self)
           /\ Holds(r.self)

\* list.for_each(visitor)
ForEach ==
    /\ Ready(st)
    /\ st' = Finished("for_each", VisitArgs(Never, Infallible),
                      for_each(st.list, Visitor(Never, Infallible)), End)
    /\ Untouched

\* list.for_each_ref(visitor)
ForEachRef ==
    /\ Ready(st)
    /\ st' = Finished("for_each_ref", VisitArgs(Never, Infallible),
                      for_each_ref(st.list, Visitor(Never, Infallible)), st.list)
    /\ Untouched

\* list.for_each_mut(visitor)
ForEachMut ==
    /\ Ready(st)
    /\ LET r == for_each_mut(st.list, Visitor(Never, Infallible))
       IN  /\ st' = Finished("for_each_mut", VisitArgs(Never, Infallible), r, r.self)
           /\ Holds(r.self)

\* list.try_fold(z, on_fold)
TryFold(z, f, failAt, err) ==
    /\ Ready(st)
    /\ st' = Finished("try_fold", Args(failAt, err, z, f),
                      try_fold(st.list, z, f, failAt, err), End)
    /\ Untouched

\* list.try_fold_ref(z, on_fold)
TryFoldRef(z, f, failAt, err) ==
    /\ Ready(st)
    /\ st' = Finished("try_fold_ref", Args(failAt, err, z, f),
                      try_fold_ref(st.list, z, f, failAt, err), st.list)
    /\ Untouched

\* list.try_fold_mut(z, on_fold)
TryFoldMut(z, f, failAt, err) ==
    /\ Ready(st)
    /\ LET r == try_fold_mut(st.list, z, f, failAt, err)
       IN  /\ st' = Finished("try_fold_mut", Args(failAt, err, z, f), r, r.self)
           /\ Holds(r.self)

\* list.fold(z, on_fold)
Fold(z, f) ==
    /\ Ready(st)
    /\ st' = Finished("fold", Args(Never, Infallible, z, f), fold(st.list, z, f), End)
    /\ Untouched

\* list.fold_ref(z, on_fold)
FoldRef(z, f) ==
    /\ Ready(st)
    /\ st' = Finished("fold_ref", Args(Never, Infallible, z, f),
                      fold_ref(st.list, z, f), st.list)
    /\ Untouched

\* list.fold_mut(z, on_fold)
FoldMut(z, f) ==
    /\ Ready(st)
    /\ LET r == fold_mut(st.list, z, f)
       IN  /\ st' = Finished("fold_mut", Args(Never, Infallible, z, f), r, r.self)
           /\ Holds(r.self)

\* Iter::new(&list).next()
IterFirstNext ==
    /\ Ready(st)
    /\ st' = Advanced("Iter::next", Iter_next(Iter_new(0)))
    /\ Untouched

\* IterMut::new(&mut list).next()
IterMutFirstNext ==
    /\ Ready(st)
    /\ LET self == IterMut_new(0)
       IN  \E p \in ReadTargets(ptr_read(self.iteratee).value) :
               st' = Advanced("IterMut::next", IterMut_next(self, p))
    /\ Untouched

\* After for_each_mut has returned the program goes on with the list as the
\* visitor left it.
Continue ==
    /\ st.pc = "done" /\ st.op = "for_each_mut" /\ st.round < MaxRounds
    /\ st' = [pc |-> "ready", list |-> st.after, ref |-> End, last |-> "none",
              round |-> st.round + 1, prev |-> st.list]
    /\ Untouched

FailAts == 0..MaxLen
Accs == 0..1

NextStatic ==
    \/ \E x \in Vals : Cons(x)
    \/ \E x \in Vals : RCons(x)
    \/ \E k \in FailAts, e \in Errs : TryForEach(k, e)
    \/ \E k \in FailAts, e \in Errs : TryForEachRef(k, e)
    \/ \E k \in FailAts, e \in Errs : TryForEachMut(k, e)
    \/ ForEach
    \/ ForEachRef
    \/ ForEachMut
    \/ \E z \in Accs, f \in Folds, k \in FailAts, e \in Errs \cup {"unwind"} :
           TryFold(z, f, k, e)
    \/ \E z \in Accs, f \in Folds, k \in FailAts, e \in Errs \cup {"unwind"} :
           TryFoldRef(z, f, k, e)
    \/ \E z \in Accs, f \in Folds, k \in FailAts, e \in Errs \cup {"unwind"} :
           TryFoldMut(z, f, k, e)
    \/ \E z \in Accs, f \in Folds : Fold(z, f)
    \/ \E z \in Accs, f \in Folds : FoldRef(z, f)
    \/ \E z \in Accs, f \in Folds : FoldMut(z, f)
    \/ IterFirstNext
    \/ IterMutFirstNext
    \/ Continue

SpecStatic == InitStatic /\ [][NextStatic]_vars

\* ------------------------------------------------------------- properties
\* The i-th value a cursor standing at position p yields when it runs alone.
Suffix(p, i) == IF p + i <= n THEN Some(p + i) ELSE None

IsSome(v) == v.tag = "Some"

\* C1: a cursor created at the start of a sequence of length n yields items
\* 1..n in order on its first n returning calls to next() and None on every
\* later call, and its stored position stays a valid one.
C1_Exhaustion ==
    \A c \in Ids : (Live(c) /\ cur[c].via = "new") =>
        /\ cur[c].iteratee.init
        /\ \A i \in 1..Len(cur[c].log) :
             cur[c].log[i] = IF i <= n THEN Some(i) ELSE None

C1_Witness ==
    \E c \in Ids : /\ cur[c].kind = "IterMut" /\ cur[c].via = "new"
                   /\ n >= 2 /\ Len(cur[c].log) = n + 2

\* C2: when head_rest_mut unwinds inside IterMut::next the cursor's slot still
\* holds the position it held before the call, and no cursor's slot is ever
\* left without an initialized reference.
C2_UnwindKeepsSlot ==
    /\ [](\A c \in Ids : Live(c) => cur[c].iteratee.init)
    /\ [][\A c \in Ids : IterMutNextUnwind(c) =>
            /\ cur'[c].iteratee = cur[c].iteratee
            /\ ReadTargets(cur'[c].iteratee) = {cur[c].iteratee.pos}]_vars

C2_Witness ==
    \E c \in Ids : /\ cur[c].kind = "IterMut" /\ unwinds = 1
                   /\ n >= 1 /\ Len(cur[c].log) = n + 1

\* C3: an exclusive cursor always holds exactly one stored position, the
\* items it has yielded are pairwise disjoint and disjoint from the region of
\* its stored remainder, and a write through one yielded item leaves every
\* other item yielded by the same cursor unchanged.
C3_YieldsDisjoint ==
    \A c \in Ids : cur[c].kind = "IterMut" =>
        LET log == cur[c].log
        IN  /\ cur[c].iteratee.init
            /\ \A i, j \in 1..Len(log) :
                 (i < j /\ IsSome(log[i]) /\ IsSome(log[j])) =>
                    ItemRegion(log[i].idx) \cap ItemRegion(log[j].idx) = {}
            /\ \A i \in 1..Len(log) :
                 IsSome(log[i]) =>
                    ItemRegion(log[i].idx) \cap CellRegion(cur[c].iteratee.pos) = {}

C3_WriteNotObserved ==
    \A r1, r2 \in refs :
        (r1 # r2 /\ r1.owner = r2.owner /\ Write(r1)) => items'[r2.idx] = items[r2.idx]

C3_Disjoint == []C3_YieldsDisjoint /\ [][C3_WriteNotObserved]_vars

C3_Witness ==
    \E c \in Ids : /\ cur[c].kind = "IterMut" /\ Len(cur[c].log) >= 2
                   /\ writes = 1 /\ items[1] = 2
                   /\ Cardinality({r \in refs : r.owner = c}) >= 2

\* C4: an original and its fork are never both able to advance, and no two
\* live exclusive item references denote the same item.
C4_ForkExclusive ==
    /\ \A r1, r2 \in refs : r1 # r2 => ItemRegion(r1.idx) \cap ItemRegion(r2.idx) = {}
    /\ \A c1, c2 \in Ids :
         (c1 # c2 /\ cur[c1].kind = "IterMut" /\ cur[c2].kind = "IterMut") =>
            ~(UsableMut(c1) /\ UsableMut(c2))

C4_Witness ==
    \E e, f \in Ids : /\ cur[e].kind = "IterMut" /\ cur[f].kind = "IterMut"
                      /\ cur[f].via = "fork" /\ cur[f].src = e
                      /\ Len(cur[e].log) >= 1 /\ Len(cur[f].log) >= 1
                      /\ \E r1, r2 \in refs : r1.owner = e /\ r2.owner = f

\* The i-th value repeated IterMut::next calls yield from position p.
RECURSIVE MutYield(_, _)
MutYield(p, i) ==
    IF i <= 1 THEN head_rest_mut(p).head ELSE MutYield(head_rest_mut(p).rest, i - 1)

\* C5: a shared cursor obtained from an exclusive cursor by fork_shared() or
\* by conversion yields, call for call, what next() on the exclusive cursor
\* would have yielded from the position it stood at.
C5_DegradeKeepsPosition ==
    \A s \in Ids : (cur[s].kind = "Iter" /\ cur[s].via \in {"fork_shared", "from"}) =>
        /\ cur[s].start = cur[s].srcPos
        /\ \A i \in 1..Len(cur[s].log) : cur[s].log[i] = MutYield(cur[s].srcPos, i)

C5_Witness ==
    \E s \in Ids : /\ cur[s].kind = "Iter" /\ cur[s].via = "from"
                   /\ cur[s].srcPos >= 1 /\ Len(cur[s].log) >= 2
                   /\ IsSome(cur[s].log[2])

\* C6: while a shared cursor made by fork_shared() is alive the exclusive
\* cursor stands where it stood before the call, and neither fork_shared()
\* nor a next() on a shared cursor changes an exclusive cursor or the items.
C6_SelfUndisturbed ==
    \A s \in Ids : (cur[s].kind = "Iter" /\ cur[s].via = "fork_shared") =>
        /\ cur[cur[s].src].kind = "IterMut"
        /\ cur[cur[s].src].iteratee = Slot(cur[s].srcPos)

C6_StepFrame ==
    (\E c \in Ids : ForkShared(c) \/ IterNext(c)) =>
        /\ items' = items
        /\ \A e \in Ids : cur[e].kind = "IterMut" =>
             (cur'[e].iteratee = cur[e].iteratee /\ cur'[e].log = cur[e].log)

C6_ForkSharedFrame == []C6_SelfUndisturbed /\ [][C6_StepFrame]_vars

C6_Witness ==
    \E s \in Ids : /\ cur[s].kind = "Iter" /\ cur[s].via = "fork_shared"
                   /\ cur[s].srcPos >= 1 /\ Len(cur[s].log) >= 2
                   /\ cur[cur[s].src].kind = "IterMut"

\* C7: a clone of a shared cursor starts at the position the original stood
\* at and yields the whole remaining suffix from there; the original keeps
\* yielding its own suffix, and a next() on one shared cursor never changes
\* another cursor.
C7_CloneSuffix ==
    \A k \in Ids : (cur[k].kind = "Iter" /\ cur[k].via = "clone") =>
        /\ cur[k].start = cur[k].srcPos
        /\ \A i \in 1..Len(cur[k].log) : cur[k].log[i] = Suffix(cur[k].srcPos, i)
        /\ LET o == cur[k].src
           IN  cur[o].kind = "Iter" =>
                 \A i \in 1..Len(cur[o].log) : cur[o].log[i] = Suffix(cur[o].start, i)

C7_StepIndependent ==
    \A c \in Ids : IterNext(c) => \A d \in Ids \ {c} : cur'[d] = cur[d]

C7_CloneIndependent == []C7_CloneSuffix /\ [][C7_StepIndependent]_vars

C7_Witness ==
    \E k \in Ids : /\ cur[k].kind = "Iter" /\ cur[k].via = "clone"
                   /\ cur[k].srcPos >= 1 /\ Len(cur[k].log) >= 1
                   /\ cur[cur[k].src].kind = "Iter"
                   /\ Len(cur[cur[k].src].log) > cur[k].srcPos + Len(cur[k].log)

\* C8: however the next() calls of several shared cursors interleave, each
\* yields what it would yield alone and stands after what it has yielded,
\* and no next() on a shared cursor changes the items.
C8_AsAlone ==
    \A c \in Ids : cur[c].kind = "Iter" =>
        /\ \A i \in 1..Len(cur[c].log) : cur[c].log[i] = Suffix(cur[c].start, i)
        /\ cur[c].iteratee =
             Slot(IF cur[c].start + Len(cur[c].log) <= n
                  THEN cur[c].start + Len(cur[c].log) ELSE n)

C8_StepPure == (\E c \in Ids : IterNext(c)) => (items' = items /\ n' = n)

C8_SharedPure == []C8_AsAlone /\ [][C8_StepPure]_vars

C8_Witness ==
    \E c1, c2 \in Ids :
        /\ c1 # c2 /\ cur[c1].kind = "Iter" /\ cur[c2].kind = "Iter"
        /\ cur[c1].via = "new" /\ cur[c2].via = "new"
        /\ Len(cur[c1].log) = 1 /\ Len(cur[c2].log) = 3 /\ n >= 2

\* C9: size_hint() of a cursor returns what Iteratee::size_hint returns for
\* the cell the cursor stands at.
C9_SizeHintDelegates ==
    \A c \in Ids :
        /\ cur[c].kind = "Iter" =>
             Iter_size_hint(cur[c]) = Iteratee_size_hint(cur[c].iteratee.pos)
        /\ cur[c].kind = "IterMut" =>
             IterMut_size_hint(cur[c]) = Iteratee_size_hint(cur[c].iteratee.pos)

\* C14: a fork starts at the position the original stood at and yields the
\* remaining suffix from there; while the fork lives the original still holds
\* that position, and the step that ends the fork leaves the original's
\* stored position as it was, an initialized reference.
C14_ForkSamePosition ==
    \A f \in Ids : (cur[f].kind = "IterMut" /\ cur[f].via = "fork") =>
        /\ cur[f].start = cur[f].srcPos
        /\ \A i \in 1..Len(cur[f].log) : cur[f].log[i] = Suffix(cur[f].srcPos, i)
        /\ cur[cur[f].src].kind = "IterMut"
        /\ cur[cur[f].src].iteratee = Slot(cur[f].srcPos)

C14_ForkEndKeepsOriginal ==
    \A f \in Ids :
        (cur[f].kind = "IterMut" /\ cur[f].via = "fork" /\ cur'[f].kind = "none"
            /\ cur'[cur[f].src].kind = "IterMut") =>
        /\ cur'[cur[f].src].iteratee = Slot(cur[f].srcPos)
        /\ cur'[cur[f].src].log = cur[cur[f].src].log

C14_ForkLeavesOriginal == []C14_ForkSamePosition /\ [][C14_ForkEndKeepsOriginal]_vars

C14_Witness ==
    \E f \in Ids : /\ cur[f].kind = "IterMut" /\ cur[f].via = "fork"
                   /\ cur[f].srcPos = 1 /\ Len(cur[f].log) >= 2 /\ n >= 3
                   /\ cur[cur[f].src].iteratee = Slot(1)

\* C10: try_for_each, try_for_each_ref and try_for_each_mut with a visitor
\* failing on its k-th call (1 <= k <= n) visit exactly the first k items in
\* order and return that failure; with a visitor that never fails they visit
\* all n items and return success.
C10_ShortCircuit ==
    (st.pc = "done" /\ st.op \in {"try_for_each", "try_for_each_ref", "try_for_each_mut"}) =>
        IF 1 <= st.failAt /\ st.failAt <= Len(st.list)
        THEN st.seen = SubSeq(st.list, 1, st.failAt) /\ st.result = Err(st.err)
        ELSE st.seen = st.list /\ st.result = Ok

C10_Witness ==
    /\ st.pc = "done" /\ st.op = "try_for_each_mut"
    /\ Len(st.list) = 3 /\ st.failAt = 2
    /\ st.seen = SubSeq(st.list, 1, 2) /\ st.list[1] # st.list[2]
    /\ st.result = Err("e2")

\* C16: building from End, the list's items from head to rest are always the
\* reference sequence kept by prepending on cons and appending on r_cons:
\* cons(x) puts x first with the old items after it in order, r_cons(x) keeps
\* the old items in place and puts x last, and each grows the length by one.
C16_MatchesReference == (Ready(st) /\ st.round = 0) => st.list = st.ref

C16_Grows ==
    (Ready(st) /\ Ready(st') /\ st'.round = 0 /\ st' # st) =>
        /\ Len(st'.list) = Len(st.list) + 1
        /\ st'.last = "cons" =>
               /\ Tail(st'.list) = st.list
               /\ st'.list[1] = st'.ref[1]
        /\ st'.last = "r_cons" =>
               /\ SubSeq(st'.list, 1, Len(st.list)) = st.list
               /\ st'.list[Len(st'.list)] = st'.ref[Len(st'.ref)]

C16_ConsOrder == []C16_MatchesReference /\ [][C16_Grows]_vars

C16_Witness ==
    /\ Ready(st) /\ st.round = 0 /\ st.last = "r_cons"
    /\ st.list = <<2, 1, 3>> /\ st.ref = <<2, 1, 3>>

\* The loop a caller writes by hand: advance a cursor until it is exhausted
\* and thread one accumulator through f, item by item.
RECURSIVE ManualFold(_, _, _)
ManualFold(it, acc, f) ==
    LET r == Iter_next(it)
    IN  IF r.out = None THEN acc
        ELSE ManualFold([it EXCEPT !.iteratee = r.iteratee],
                        F(f, acc, items[r.out.idx]), f)

\* The same loop over an exclusive cursor, with the function that also
\* increments the item it is handed; `its` is the sequence so far.
RECURSIVE ManualFoldMut(_, _, _, _)
ManualFoldMut(it, acc, f, its) ==
    LET r == IterMut_next(it, ptr_read(it.iteratee).value.pos)
    IN  IF r.out = None THEN [acc |-> acc, items |-> its]
        ELSE ManualFoldMut([it EXCEPT !.iteratee = r.iteratee],
                           F(f, acc, its[r.out.idx]), f,
                           [its EXCEPT ![r.out.idx] = @ + 1])

\* C11: fold, fold_ref and fold_mut with function f and initial value z
\* return what the hand-written cursor loop computes over the same sequence,
\* applying f left to right to one accumulator (and fold_mut leaves the
\* sequence as that loop leaves it).
C11_FoldStep ==
    (Ready(st) /\ st'.pc = "done") =>
        /\ st'.op \in {"fold", "fold_ref"} =>
               st'.result = Ret(ManualFold(Iter_new(0), st'.z, st'.f))
        /\ st'.op = "fold_mut" =>
               LET m == ManualFoldMut(IterMut_new(0), st'.z, st'.f, items)
               IN  st'.result = Ret(m.acc) /\ st'.after = m.items

C11_FoldIsManualLoop == [][C11_FoldStep]_vars

C11_Witness ==
    /\ st.pc = "done" /\ st.op = "fold_ref" /\ st.round = 0
    /\ st.list = <<3, 1, 2>> /\ st.f = "digits" /\ st.z = 1
    /\ st.seen = <<3, 1, 2>> /\ st.result = Ret(1312)

Incremented(s) == [i \in 1..Len(s) |-> s[i] + 1]

RECURSIVE SumSeq(_)
SumSeq(s) == IF s = <<>> THEN 0 ELSE Head(s) + SumSeq(Tail(s))

\* C12: for_each_mut hands the visitor every item once, in position order,
\* and returns; the increments it makes stay in the list, so a later
\* for_each_ref sees each old item plus one, in order, and a later fold by
\* addition from 0 returns their sum: [1, 2, 3] becomes [2, 3, 4], seen as
\* 2, 3, 4 and summed to 9.
C12_WritesPersist ==
    /\ (st.pc = "done" /\ st.op = "for_each_mut") =>
           /\ st.seen = st.list
           /\ st.after = Incremented(st.list)
           /\ st.result = Ret("unit")
    /\ st.round >= 1 =>
           /\ st.list = Incremented(st.prev)
           /\ st.prev = <<1, 2, 3>> => st.list = <<2, 3, 4>>
           /\ (st.pc = "done" /\ st.op = "for_each_ref") =>
                  /\ st.seen = Incremented(st.prev)
                  /\ st.prev = <<1, 2, 3>> => st.seen = <<2, 3, 4>>
           /\ (st.pc = "done" /\ st.op \in {"fold", "fold_ref"}
                  /\ st.f = "sum" /\ st.z = 0) =>
                  /\ st.result = Ret(SumSeq(Incremented(st.prev)))
                  /\ st.prev = <<1, 2, 3>> => st.result = Ret(9)

C12_Witness ==
    /\ st.pc = "done" /\ st.round = 1 /\ st.prev = <<1, 2, 3>>
    /\ st.op = "fold_ref" /\ st.f = "sum" /\ st.z = 0
    /\ st.list = <<2, 3, 4>> /\ st.seen = <<2, 3, 4>> /\ st.result = Ret(9)

\* C13: on a list that is only End, for_each* never call the visitor,
\* try_for_each* return success, fold* and try_fold* return the initial
\* accumulator as given, and the first next() of a cursor returns None.
C13_EmptySequence ==
    (st.pc = "done" /\ st.list = End) =>
        /\ st.op \in {"for_each", "for_each_ref", "for_each_mut"} =>
               st.seen = <<>> /\ st.result = Ret("unit")
        /\ st.op \in {"try_for_each", "try_for_each_ref", "try_for_each_mut"} =>
               st.seen = <<>> /\ st.result = Ok
        /\ st.op \in {"fold", "fold_ref", "fold_mut"} =>
               st.seen = <<>> /\ st.result = Ret(st.z)
        /\ st.op \in {"try_fold", "try_fold_ref", "try_fold_mut"} =>
               st.seen = <<>> /\ st.result = OkVal(st.z)
        /\ st.op \in {"Iter::next", "IterMut::next"} => st.out = None

C13_Witness ==
    /\ st.pc = "done" /\ st.list = End /\ st.op = "try_fold_mut"
    /\ st.z = 1 /\ st.failAt = 1 /\ st.seen = <<>> /\ st.after = End
    /\ st.result = OkVal(1)

\* k rounds of moving the accumulator out of its slot and a value back in.
RECURSIVE TakePut(_)
TakePut(k) == IF k = 0 THEN <<>> ELSE TakePut(k - 1) \o <<"take", "put">>

\* C15: in try_fold, try_fold_ref and try_fold_mut every call of on_fold is
\* preceded by exactly one move out of the accumulator slot and, only when
\* it succeeds, followed by one write back.  When on_fold fails or unwinds
\* the slot is left vacated and nothing reads, returns or drops it again;
\* when every call succeeds the slot is full after the last one and its
\* value is returned once.  The accumulator is never dropped in place.
C15_SlotDiscipline ==
    (st.pc = "done" /\ st.op \in {"try_fold", "try_fold_ref", "try_fold_mut"}) =>
        LET k == Len(st.seen)
        IN  /\ \A i \in 1..Len(st.events) : st.events[i] # "drop"
            /\ IF st.result.tag = "Ok"
               THEN /\ st.events = TakePut(k) \o <<"return">>
                    /\ ~st.full
               ELSE /\ k >= 1 /\ k = st.failAt
                    /\ st.events = TakePut(k - 1) \o <<"take">>
                    /\ ~st.full

C15_Witness ==
    /\ st.pc = "done" /\ st.op = "try_fold_ref" /\ Len(st.list) = 3
    /\ st.failAt = 2 /\ st.err = "unwind" /\ st.result = Unwound
    /\ st.events = <<"take", "put", "take">> /\ ~st.full

====
